---- MODULE Spec2Model ----
(***************************************************************************)
(* MD5 digest engine of src/src/md5.cpp: md5Init, md5Update, md5Final,     *)
(* byteSwap, md5Transform and the one-shot md5.                            *)
(*                                                                         *)
(* Memory is modelled as bytes.  The uint32_t arrays ctx->buf and ctx->in  *)
(* are byte arrays that the host reads and writes as 32-bit words in its   *)
(* own byte order (LoadWord, StoreWord), so that memcpy, byteSwap and the  *)
(* word accesses of md5Transform meet on the same bytes, as in the code.   *)
(*                                                                         *)
(* A 32-bit word is a pair <<lo, hi>> of 16-bit halves and the byte        *)
(* counter is four 16-bit limbs, least significant first, so that every    *)
(* operation keeps the width of its C type.                                *)
(***************************************************************************)
EXTENDS Integers, Sequences, FiniteSets

VARIABLES host, ctx, fed, oob, digest, phase, stream, stale, lastCall, misuse

vars == <<host, ctx, fed, oob, digest, phase, stream, stale, lastCall, misuse>>

-----------------------------------------------------------------------------
(* Bit operations on bytes and 16-bit halves.                              *)

RECURSIVE AndBits(_, _, _)
AndBits(x, y, n) ==
    IF n = 0 THEN 0
    ELSE (x % 2) * (y % 2) + 2 * AndBits(x \div 2, y \div 2, n - 1)

\* x & y for nibbles, tabulated once.
AndNib == [x \in 0..15 |-> [y \in 0..15 |-> AndBits(x, y, 4)]]

\* x & y, nibble by nibble.
RECURSIVE And16(_, _)
And16(x, y) ==
    IF x = 0 \/ y = 0 THEN 0
    ELSE AndNib[x % 16][y % 16] + 16 * And16(x \div 16, y \div 16)

Xor16(x, y) == x + y - 2 * And16(x, y)

Or16(x, y) == x + y - And16(x, y)

Not16(x) == 65535 - x

-----------------------------------------------------------------------------
(* uint32_t arithmetic.                                                    *)

\* The word 0xHHHHLLLL.
W32(hi, lo) == <<lo, hi>>

Pow2(n) == 2 ^ n

WAnd(x, y) == <<And16(x[1], y[1]), And16(x[2], y[2])>>

WXor(x, y) == <<Xor16(x[1], y[1]), Xor16(x[2], y[2])>>

WOr(x, y) == <<Or16(x[1], y[1]), Or16(x[2], y[2])>>

WNot(x) == <<Not16(x[1]), Not16(x[2])>>

\* x + y modulo 2^32.
WAdd(x, y) ==
    LET lo == x[1] + y[1]
    IN  <<lo % 65536, (x[2] + y[2] + lo \div 65536) % 65536>>

\* (w << s | w >> (32 - s)) for 0 < s < 32.
RotL(w, s) ==
    LET v == IF s >= 16 THEN <<w[2], w[1]>> ELSE w
        r == s % 16
        k == Pow2(16 - r)
        m == Pow2(r)
    IN  IF r = 0 THEN v
        ELSE <<(v[1] % k) * m + v[2] \div k, (v[2] % k) * m + v[1] \div k>>

-----------------------------------------------------------------------------
(* The four core functions and the central step.                           *)

F1(x, y, z) == WXor(z, WAnd(x, WXor(y, z)))

F2(x, y, z) == F1(z, x, y)

F3(x, y, z) == WXor(WXor(x, y), z)

F4(x, y, z) == WXor(y, WOr(x, WNot(z)))

F(n, x, y, z) ==
    CASE n = 1 -> F1(x, y, z)
      [] n = 2 -> F2(x, y, z)
      [] n = 3 -> F3(x, y, z)
      [] n = 4 -> F4(x, y, z)

\* One row per MD5STEP line of md5Transform:
\* <<core function, registers (w, x, y, z) as positions in <<a, b, c, d>>,
\*   index of the input word, additive constant, rotation>>.
Steps == <<
    <<1, <<1,2,3,4>>,  0, W32(\Hd76a, \Ha478),  7>>,   \* line 161
    <<1, <<4,1,2,3>>,  1, W32(\He8c7, \Hb756), 12>>,   \* line 162
    <<1, <<3,4,1,2>>,  2, W32(\H2420, \H70db), 17>>,   \* line 163
    <<1, <<2,3,4,1>>,  3, W32(\Hc1bd, \Hceee), 22>>,   \* line 164
    <<1, <<1,2,3,4>>,  4, W32(\Hf57c, \H0faf),  7>>,   \* line 165
    <<1, <<4,1,2,3>>,  5, W32(\H4787, \Hc62a), 12>>,   \* line 166
    <<1, <<3,4,1,2>>,  6, W32(\Ha830, \H4613), 17>>,   \* line 167
    <<1, <<2,3,4,1>>,  7, W32(\Hfd46, \H9501), 22>>,   \* line 168
    <<1, <<1,2,3,4>>,  8, W32(\H6980, \H98d8),  7>>,   \* line 169
    <<1, <<4,1,2,3>>,  9, W32(\H8b44, \Hf7af), 12>>,   \* line 170
    <<1, <<3,4,1,2>>, 10, W32(\Hffff, \H5bb1), 17>>,   \* line 171
    <<1, <<2,3,4,1>>, 11, W32(\H895c, \Hd7be), 22>>,   \* line 172
    <<1, <<1,2,3,4>>, 12, W32(\H6b90, \H1122),  7>>,   \* line 173
    <<1, <<4,1,2,3>>, 13, W32(\Hfd98, \H7193), 12>>,   \* line 174
    <<1, <<3,4,1,2>>, 14, W32(\Ha679, \H438e), 17>>,   \* line 175
    <<1, <<2,3,4,1>>, 15, W32(\H49b4, \H0821), 22>>,   \* line 176
    <<2, <<1,2,3,4>>,  1, W32(\Hf61e, \H2562),  5>>,   \* line 178
    <<2, <<4,1,2,3>>,  6, W32(\Hc040, \Hb340),  9>>,   \* line 179
    <<2, <<3,4,1,2>>, 11, W32(\H265e, \H5a51), 14>>,   \* line 180
    <<2, <<2,3,4,1>>,  0, W32(\He9b6, \Hc7aa), 20>>,   \* line 181
    <<2, <<1,2,3,4>>,  5, W32(\Hd62f, \H105d),  5>>,   \* line 182
    <<2, <<4,1,2,3>>, 10, W32(\H0244, \H1453),  9>>,   \* line 183
    <<2, <<3,4,1,2>>, 15, W32(\Hd8a1, \He681), 14>>,   \* line 184
    <<2, <<2,3,4,1>>,  4, W32(\He7d3, \Hfbc8), 20>>,   \* line 185
    <<2, <<1,2,3,4>>,  9, W32(\H21e1, \Hcde6),  5>>,   \* line 186
    <<2, <<4,1,2,3>>, 14, W32(\Hc337, \H07d6),  9>>,   \* line 187
    <<2, <<3,4,1,2>>,  3, W32(\Hf4d5, \H0d87), 14>>,   \* line 188
    <<2, <<2,3,4,1>>,  8, W32(\H455a, \H14ed), 20>>,   \* line 189
    <<2, <<1,2,3,4>>, 13, W32(\Ha9e3, \He905),  5>>,   \* line 190
    <<2, <<4,1,2,3>>,  2, W32(\Hfcef, \Ha3f8),  9>>,   \* line 191
    <<2, <<3,4,1,2>>,  7, W32(\H676f, \H02d9), 14>>,   \* line 192
    <<2, <<2,3,4,1>>, 12, W32(\H8d2a, \H4c8a), 20>>,   \* line 193
    <<3, <<1,2,3,4>>,  5, W32(\Hfffa, \H3942),  4>>,   \* line 195
    <<3, <<4,1,2,3>>,  8, W32(\H8771, \Hf681), 11>>,   \* line 196
    <<3, <<3,4,1,2>>, 11, W32(\H6d9d, \H6122), 16>>,   \* line 197
    <<3, <<2,3,4,1>>, 14, W32(\Hfde5, \H380c), 23>>,   \* line 198
    <<3, <<1,2,3,4>>,  1, W32(\Ha4be, \Hea44),  4>>,   \* line 199
    <<3, <<4,1,2,3>>,  4, W32(\H4bde, \Hcfa9), 11>>,   \* line 200
    <<3, <<3,4,1,2>>,  7, W32(\Hf6bb, \H4b60), 16>>,   \* line 201
    <<3, <<2,3,4,1>>, 10, W32(\Hbebf, \Hbc70), 23>>,   \* line 202
    <<3, <<1,2,3,4>>, 13, W32(\H289b, \H7ec6),  4>>,   \* line 203
    <<3, <<4,1,2,3>>,  0, W32(\Heaa1, \H27fa), 11>>,   \* line 204
    <<3, <<3,4,1,2>>,  3, W32(\Hd4ef, \H3085), 16>>,   \* line 205
    <<3, <<2,3,4,1>>,  6, W32(\H0488, \H1d05), 23>>,   \* line 206
    <<3, <<1,2,3,4>>,  9, W32(\Hd9d4, \Hd039),  4>>,   \* line 207
    <<3, <<4,1,2,3>>, 12, W32(\He6db, \H99e5), 11>>,   \* line 208
    <<3, <<3,4,1,2>>, 15, W32(\H1fa2, \H7cf8), 16>>,   \* line 209
    <<3, <<2,3,4,1>>,  2, W32(\Hc4ac, \H5665), 23>>,   \* line 210
    <<4, <<1,2,3,4>>,  0, W32(\Hf429, \H2244),  6>>,   \* line 212
    <<4, <<4,1,2,3>>,  7, W32(\H432a, \Hff97), 10>>,   \* line 213
    <<4, <<3,4,1,2>>, 14, W32(\Hab94, \H23a7), 15>>,   \* line 214
    <<4, <<2,3,4,1>>,  5, W32(\Hfc93, \Ha039), 21>>,   \* line 215
    <<4, <<1,2,3,4>>, 12, W32(\H655b, \H59c3),  6>>,   \* line 216
    <<4, <<4,1,2,3>>,  3, W32(\H8f0c, \Hcc92), 10>>,   \* line 217
    <<4, <<3,4,1,2>>, 10, W32(\Hffef, \Hf47d), 15>>,   \* line 218
    <<4, <<2,3,4,1>>,  1, W32(\H8584, \H5dd1), 21>>,   \* line 219
    <<4, <<1,2,3,4>>,  8, W32(\H6fa8, \H7e4f),  6>>,   \* line 220
    <<4, <<4,1,2,3>>, 15, W32(\Hfe2c, \He6e0), 10>>,   \* line 221
    <<4, <<3,4,1,2>>,  6, W32(\Ha301, \H4314), 15>>,   \* line 222
    <<4, <<2,3,4,1>>, 13, W32(\H4e08, \H11a1), 21>>,   \* line 223
    <<4, <<1,2,3,4>>,  4, W32(\Hf753, \H7e82),  6>>,   \* line 224
    <<4, <<4,1,2,3>>, 11, W32(\Hbd3a, \Hf235), 10>>,   \* line 225
    <<4, <<3,4,1,2>>,  2, W32(\H2ad7, \Hd2bb), 15>>,   \* line 226
    <<4, <<2,3,4,1>>,  9, W32(\Heb86, \Hd391), 21>>   \* line 227
>>

\* MD5STEP without the final "+ x".
MD5STEPNoAdd(f, w, x, y, z, in, s) ==
    RotL(WAdd(w, WAdd(F(f, x, y, z), in)), s)

\* #define MD5STEP(f,w,x,y,z,in,s)
\*     (w += f(x,y,z) + in, w = (w<<s | w>>(32-s)) + x)
MD5STEP(f, w, x, y, z, in, s) ==
    WAdd(RotL(WAdd(w, WAdd(F(f, x, y, z), in)), s), x)

\* The rotation of the row taken for its word index.
StepIndexFromShift(row) == row[5] % 16

\* The input word a row consumes.
StepIndex(row) == row[3]

\* One MD5STEP line applied to the registers regs = <<a, b, c, d>>.
ApplyStep(regs, row, in) ==
    [regs EXCEPT ![row[2][1]] =
        MD5STEP(row[1], regs[row[2][1]], regs[row[2][2]], regs[row[2][3]],
                regs[row[2][4]], WAdd(in[StepIndex(row)], row[4]), row[5])]

\* The lines i..last, in order.  The one-element set binds the registers a
\* line leaves before the next line reads them.
RECURSIVE Rounds(_, _, _, _, _)
Rounds(regs, in, steps, i, last) ==
    IF i > last THEN regs
    ELSE CHOOSE out \in {Rounds(next, in, steps, i + 1, last) :
                            next \in {ApplyStep(regs, steps[i], in)}} : TRUE

\* The round groups g.. of 16 lines each, in order.
RECURSIVE Groups(_, _, _, _)
Groups(regs, in, steps, g) ==
    IF 16 * g > Len(steps) THEN regs
    ELSE CHOOSE out \in {Groups(next, in, steps, g + 1) :
                            next \in {Rounds(regs, in, steps,
                                              16 * (g - 1) + 1, 16 * g)}} : TRUE

\* buf[0] += a; buf[1] += b; buf[2] += c; buf[3] += d;
AddRegs(buf, r) ==
    <<WAdd(buf[1], r[1]), WAdd(buf[2], r[2]),
      WAdd(buf[3], r[3]), WAdd(buf[4], r[4])>>

\* md5Transform on words: buf is <<buf[0], .., buf[3]>>, in is [0..15 -> word].
TransformWords(buf, in) == AddRegs(buf, Groups(buf, in, Steps, 1))

-----------------------------------------------------------------------------
(* Words in memory.                                                        *)

Hosts == {"LE", "BE"}

\* The uint32_t the host reads at word index i of the byte array mem.
LoadWord(h, mem, i) ==
    LET p == 4 * i
    IN  IF h = "LE"
        THEN <<mem[p] + 256 * mem[p + 1], mem[p + 2] + 256 * mem[p + 3]>>
        ELSE <<mem[p + 3] + 256 * mem[p + 2], mem[p + 1] + 256 * mem[p]>>

\* Byte j (0..3) of the uint32_t w as the host lays it out in memory.
WordByte(h, w, j) ==
    LET k == IF h = "LE" THEN j ELSE 3 - j
        half == w[1 + k \div 2]
    IN  IF k % 2 = 0 THEN half % 256 ELSE half \div 256

\* mem after the host stores the uint32_t w at word index i.
StoreWord(h, mem, i, w) ==
    [j \in DOMAIN mem |->
        IF j \div 4 = i THEN WordByte(h, w, j % 4) ELSE mem[j]]

\* byteSwap that leaves the bytes alone on every host.
byteSwapNone(h, mem, words) == mem

\* byteSwap(buf, words): each of the first `words` words becomes
\* p[3] << 24 | p[2] << 16 | p[1] << 8 | p[0] of its own bytes p.
byteSwap(h, mem, words) ==
    [j \in DOMAIN mem |->
        IF j \div 4 < words
        THEN LET p == 4 * (j \div 4)
                 v == <<mem[p] + 256 * mem[p + 1],
                        mem[p + 2] + 256 * mem[p + 3]>>
             IN  WordByte(h, v, j % 4)
        ELSE mem[j]]

\* The 16 words md5Transform reads from in.
InWords(h, in) == [i \in 0..15 |-> LoadWord(h, in, i)]

\* The bytes of the words <<buf[0], .., buf[3]>> as the host stores them.
StoreWords(h, ws) == [j \in 0..15 |-> WordByte(h, ws[1 + j \div 4], j % 4)]

\* The words buf[0..3] the host reads from the memory of buf.
BufWords(h, buf) ==
    <<LoadWord(h, buf, 0), LoadWord(h, buf, 1),
      LoadWord(h, buf, 2), LoadWord(h, buf, 3)>>

\* md5Transform(buf, in) on the memory of buf and in; returns buf.
md5Transform(h, buf, in) ==
    StoreWords(h, TransformWords(BufWords(h, buf), InWords(h, in)))

-----------------------------------------------------------------------------
(* struct md5Context and the byte counter.                                 *)

\* Number of 16-bit limbs of ctx->bytes: a 64-bit counter.
CounterLimbs == 4

Limb(b, i) == IF i \in 1..CounterLimbs THEN b[i] ELSE 0

ZeroCount == [i \in 1..CounterLimbs |-> 0]

RECURSIVE AddLimbs(_, _, _)
AddLimbs(b, n, i) ==
    IF i > CounterLimbs THEN b
    ELSE LET s == b[i] + (n % 65536)
         IN  AddLimbs([b EXCEPT ![i] = s % 65536],
                      n \div 65536 + s \div 65536, i + 1)

\* The counter advanced by the bits, not the bytes, of the chunk.
CountAddBits(b, len) == AddLimbs(b, 8 * len, 1)

\* ctx->bytes + len, modulo the width of the counter.
CountAdd(b, len) == AddLimbs(b, len, 1)

\* ctx->bytes & 0x3f
CountLow6(b) == b[1] % 64

\* ctx->bytes << 3, in the width of the counter.
CountShl3(b) ==
    [i \in 1..CounterLimbs |-> ((b[i] * 8) % 65536) + (Limb(b, i - 1) \div 8192)]

\* ctx->bytes >> 29
CountShr29(b) ==
    [i \in 1..CounterLimbs |->
        Limb(b, i + 1) \div 8192 + (Limb(b, i + 2) % 8192) * 8]

\* x & 0xFFFFFFFF as a uint32_t
Low32(b) == <<Limb(b, 1), Limb(b, 2)>>

ZeroMem(n) == [j \in 0..(n - 1) |-> 0]

\* memset(ctx, 0, sizeof(*ctx))
ZeroCtx == [buf |-> ZeroMem(16), bytes |-> ZeroCount, in |-> ZeroMem(64)]

\* memcpy(mem + off, data, Len(data)); a byte outside mem is dropped here
\* and reported by WriteOut.
MemCpy(mem, off, data) ==
    [j \in DOMAIN mem |->
        IF off <= j /\ j < off + Len(data) THEN data[j - off + 1] ELSE mem[j]]

\* memset(mem + off, val, n)
MemSet(mem, off, val, n) ==
    [j \in DOMAIN mem |-> IF off <= j /\ j < off + n THEN val ELSE mem[j]]

\* A write of n bytes at offset off of the 64-byte ctx->in leaves it.
WriteOut(off, n) == n > 0 /\ (off < 0 \/ off + n > 64)

-----------------------------------------------------------------------------
(* The engine.  A run is the accumulator together with two observations    *)
(* of the calls made on it: fed, the blocks handed to md5Transform since   *)
(* md5Init (as the 16 words md5Transform reads), and oob, whether a write  *)
(* into ctx->in left the array.                                            *)

NewRun(c) == [ctx |-> c, fed |-> <<>>, oob |-> FALSE]

\* memcpy((uint8_t*)ctx->in + off, data, Len(data))
Copy(r, off, data) ==
    [r EXCEPT !.ctx.in = MemCpy(@, off, data),
              !.oob = @ \/ WriteOut(off, Len(data))]

\* memset((uint8_t*)ctx->in + off, 0, n)
Fill(r, off, n) ==
    [r EXCEPT !.ctx.in = MemSet(@, off, 0, n),
              !.oob = @ \/ WriteOut(off, n)]

\* byteSwap(ctx->in, words)
SwapIn(h, r, words) == [r EXCEPT !.ctx.in = byteSwap(h, @, words)]

\* md5Transform(ctx->buf, ctx->in)
Compress(h, r) ==
    [r EXCEPT !.ctx.buf = md5Transform(h, @, r.ctx.in),
              !.fed = Append(@, InWords(h, r.ctx.in))]

\* The initialization constants of md5Init.
InitWords ==
    <<W32(\H6745, \H2301), W32(\Hefcd, \Hab89),
      W32(\H98ba, \Hdcfe), W32(\H1032, \H5476)>>

md5Init(h, r) ==
    [ctx |-> [buf |-> StoreWords(h, InitWords),
              bytes |-> ZeroCount,
              in |-> r.ctx.in],
     fed |-> <<>>,
     oob |-> FALSE]

\* if (t >= len)
FitsInBufferInclusive(t, len) == t >= len

\* if (t > len): the data fits in ctx->in without completing a block.
FitsInBuffer(t, len) == t > len

\* for ( ; len >= 64; len -= 64) { ... }  memcpy(ctx->in, buf, len);
RECURSIVE UpdateBlocks(_, _, _)
UpdateBlocks(h, r, data) ==
    IF Len(data) >= 64
    THEN UpdateBlocks(h,
             Compress(h, SwapIn(h, Copy(r, 0, SubSeq(data, 1, 64)), 16)),
             SubSeq(data, 65, Len(data)))
    ELSE Copy(r, 0, data)

\* ctx->bytes += len
Count(r, len) == [r EXCEPT !.ctx.bytes = CountAdd(@, len)]

md5Update(h, r, data) ==
    LET t == 64 - CountLow6(r.ctx.bytes)
        len == Len(data)
    IN  IF FitsInBuffer(t, len)
        THEN Copy(Count(r, len), 64 - t, data)
        ELSE UpdateBlocks(h,
                 Compress(h, SwapIn(h,
                     Copy(Count(r, len), 64 - t, SubSeq(data, 1, t)), 16)),
                 SubSeq(data, t + 1, len))

\* count = 56 - count
PadCountLate(count) == 56 - count

\* count = 56 - 1 - count: bytes of padding needed to make 56 bytes.
PadCount(count) == 56 - 1 - count

\* ctx->in[14] = (ctx->bytes << 3) & 0xFFFFFFFF
TrailerLow(bytes) == Low32(CountShl3(bytes))

\* ctx->in[15] = (ctx->bytes >> 32) & 0xFFFFFFFF
TrailerHighShift32(bytes) == <<Limb(bytes, 3), Limb(bytes, 4)>>

\* ctx->in[15] = (ctx->bytes >> 29) & 0xFFFFFFFF
TrailerHigh(bytes) == Low32(CountShr29(bytes))

\* memset(p, 0, count - 1)
FinalFillShort(r, p, count) == Fill(r, p, count - 1)

\* memset(p, 0, count) of the last block.
FinalFill(r, p, count) == Fill(r, p, count)

\* memset(ctx->buf, 0, sizeof(ctx->buf))
WipeStateOnly(c) == [c EXCEPT !.buf = ZeroMem(16)]

\* memset(ctx, 0, sizeof(*ctx))
Wipe(c) == ZeroCtx

\* if (count < 0) { ... }  memset(p, 0, count);
\* r holds the 0x80 byte at offset count.
FinalPad(h, r, count, pad) ==
    IF pad < 0
    THEN FinalFill(
             Compress(h, SwapIn(h, Fill(r, count + 1, pad + 8), 16)), 0, 56)
    ELSE FinalFill(r, count + 1, pad)

\* ctx->in[14] = ...; ctx->in[15] = ...;
FinalLength(h, r, bytes) ==
    [r EXCEPT !.ctx.in =
        StoreWord(h, StoreWord(h, @, 14, TrailerLow(bytes)),
                  15, TrailerHigh(bytes))]

\* memcpy(digest, ctx->buf, 16)
DigestOf(buf) == [i \in 1..16 |-> buf[i - 1]]

\* byteSwap(ctx->buf, 4); memcpy(digest, ctx->buf, 16); memset(ctx, 0, ..);
FinalResult(h, r) ==
    [run |-> [r EXCEPT !.ctx = Wipe(@)],
     digest |-> DigestOf(byteSwap(h, r.ctx.buf, 4))]

\* md5Final: the run it leaves and the 16 bytes it writes to digest.
md5Final(h, r) ==
    LET count == CountLow6(r.ctx.bytes)
    IN  FinalResult(h,
            Compress(h,
                FinalLength(h,
                    SwapIn(h,
                        FinalPad(h, Copy(r, count, <<128>>), count,
                                 PadCount(count)),
                        14),
                    r.ctx.bytes)))

\* An accumulator as declared, before any call: only its size is known.
\* md5 declares it on the stack, so its content is indeterminate.
StackCtx == ZeroCtx

\* md5(buf, len, digest): the 16 bytes written to digest.
md5(h, data) ==
    md5Final(h, md5Update(h, md5Init(h, NewRun(StackCtx)), data)).digest

-----------------------------------------------------------------------------
(* The callers' inputs.                                                    *)

\* Longest stream absorbed in one computation.
MaxLen == 130

\* Longest chunk passed to one md5Update call.
MaxChunk == 128

\* "abc"
Abc == <<97, 98, 99>>

\* "The quick brown fox jumps over the lazy dog"
Fox ==
  <<84, 104, 101, 32, 113, 117, 105, 99, 107, 32, 98, 114,
    111, 119, 110, 32, 102, 111, 120, 32, 106, 117, 109, 112,
    115, 32, 111, 118, 101, 114, 32, 116, 104, 101, 32, 108,
    97, 122, 121, 32, 100, 111, 103>>

Pattern == [i \in 1..MaxLen |-> (37 * i + 11) % 256]

Sources == {Abc, Fox, Pattern}

\* Chunk lengths that meet the branches of md5Update: an empty chunk, single
\* bytes, chunks that end short of, on and past a block boundary, and a
\* chunk of several blocks.
ChunkLens == {0, 1, 2, 3, 43, 55, 56, 57, 63, 64, 65, MaxChunk}

\* The next len bytes of a source the stream absorbed so far is a prefix of.
NextData(srcs, lens) ==
    LET n == Len(stream)
    IN  {SubSeq(s, n + 1, n + len) :
            <<s, len>> \in {x \in srcs \X lens :
                              /\ n + x[2] <= Len(x[1])
                              /\ SubSeq(x[1], 1, n) = stream}}

\* An accumulator nobody initialized holds whatever the memory held: two
\* representatives, all zero and all junk (with a junk byte count of 61).
JunkCtx ==
    [buf |-> [j \in 0..15 |-> 255 - j],
     bytes |-> [i \in 1..CounterLimbs |-> IF i = 1 THEN 61 ELSE 0],
     in |-> [j \in 0..63 |-> 255 - j]]

Uninitialized == {ZeroCtx, JunkCtx}

-----------------------------------------------------------------------------
(* The state machine: one accumulator and the calls made on it.            *)
(*   host      byte order of the machine                                   *)
(*   ctx       the md5Context                                              *)
(*   fed, oob  the observations of the run (see NewRun)                    *)
(*   digest    the bytes the last md5Final wrote, <<>> before it           *)
(*   phase     "uninit", "active" (after md5Init), "consumed" (after       *)
(*             md5Final)                                                   *)
(*   stream    the bytes passed to md5Update since the last md5Init        *)
(*   stale     the content of ctx->in when md5Init was last called         *)
(*   lastCall  the last function called                                    *)
(*   misuse    the number of md5Update and md5Final calls made outside the *)
(*             lifetime, on an accumulator that is not "active"            *)

Run == [ctx |-> ctx, fed |-> fed, oob |-> oob]

Start(ctxs) ==
    /\ host \in Hosts
    /\ ctx \in ctxs
    /\ fed = <<>>
    /\ oob = FALSE
    /\ digest = <<>>
    /\ phase = "uninit"
    /\ stream = <<>>
    /\ stale = ctx.in
    /\ lastCall = "none"
    /\ misuse = 0

\* misuse after a call of md5Update or md5Final in this state.
Misused == IF phase = "active" THEN misuse ELSE misuse + 1

InitStep ==
    \E r \in {md5Init(host, Run)} :
        /\ ctx' = r.ctx
        /\ fed' = r.fed
        /\ oob' = r.oob
        /\ digest' = <<>>
        /\ phase' = "active"
        /\ stream' = <<>>
        /\ stale' = ctx.in
        /\ lastCall' = "init"
        /\ UNCHANGED <<host, misuse>>

UpdateStep(srcs, lens) ==
    \E data \in NextData(srcs, lens) :
        \E r \in {md5Update(host, Run, data)} :
            /\ ctx' = r.ctx
            /\ fed' = r.fed
            /\ oob' = r.oob
            /\ stream' = stream \o data
            /\ lastCall' = "update"
            /\ misuse' = Misused
            /\ UNCHANGED <<host, digest, phase, stale>>

FinalStep ==
    \E f \in {md5Final(host, Run)} :
        /\ ctx' = f.run.ctx
        /\ fed' = f.run.fed
        /\ oob' = f.run.oob
        /\ digest' = f.digest
        /\ phase' = "consumed"
        /\ lastCall' = "final"
        /\ misuse' = Misused
        /\ UNCHANGED <<host, stream, stale>>

\* Spec: a caller that keeps to the lifetime md5Init, md5Update.., md5Final,
\* on every stream that is a prefix of a source, cut into chunks of every
\* length of ChunkLens.
Init == Start(Uninitialized)

Md5Init == phase # "active" /\ InitStep

Md5Update == phase = "active" /\ UpdateStep(Sources, ChunkLens)

Md5Final == phase = "active" /\ FinalStep

Next == Md5Init \/ Md5Update \/ Md5Final

Spec == Init /\ [][Next]_vars

\* SpecAnyOrder: a caller that calls the three functions in any order, as
\* the code lets it (no function checks the state of the accumulator), on
\* the short source, with at most MaxMisuse calls outside the lifetime.
MaxMisuse == 2

AnySources == {Abc}

AnyLens == {0, 1, 3}

AnyInit == InitStep

AnyUpdate == Misused <= MaxMisuse /\ UpdateStep(AnySources, AnyLens)

AnyFinal == Misused <= MaxMisuse /\ FinalStep

NextAnyOrder == AnyInit \/ AnyUpdate \/ AnyFinal

SpecAnyOrder == Init /\ [][NextAnyOrder]_vars

\* SpecTrailer: accumulators that have absorbed a large number of bytes.
\* The byte counter is sampled limb by limb, up to 2^64 - 1; the state words
\* and the buffered bytes stand for whatever the absorbed stream left, and
\* stream holds only the bytes absorbed after the sampled state.
SampleLimbs == {0, 57, 8192, 65535}

CounterSamples == [1..CounterLimbs -> SampleLimbs]

TrailerInit ==
    /\ host \in Hosts
    /\ ctx \in {[buf |-> StoreWords(host, InitWords), bytes |-> c,
                 in |-> ZeroMem(64)] : c \in CounterSamples}
    /\ fed = <<>>
    /\ oob = FALSE
    /\ digest = <<>>
    /\ phase = "active"
    /\ stream = <<>>
    /\ stale = ctx.in
    /\ lastCall = "update"
    /\ misuse = 0

TrailerUpdate == phase = "active" /\ UpdateStep({Abc}, {3})

TrailerFinal == phase = "active" /\ FinalStep

NextTrailer == TrailerUpdate \/ TrailerFinal

SpecTrailer == TrailerInit /\ [][NextTrailer]_vars

-----------------------------------------------------------------------------
(* What the MD5 definition expects, stated on the byte stream.             *)

\* The little-endian value of the 4 bytes of bs after the first p.
LEWord(bs, p) == <<bs[p + 1] + 256 * bs[p + 2], bs[p + 3] + 256 * bs[p + 4]>>

\* The k-th 64-byte block of bs as 16 little-endian words.
BlockOf(bs, k) == [i \in 0..15 |-> LEWord(bs, 64 * (k - 1) + 4 * i)]

\* The first n blocks of bs.
BlocksOf(bs, n) == [k \in 1..n |-> BlockOf(bs, k)]

\* The least number of zero bytes that brings n + 1 bytes to 56 modulo 64.
ZeroPad(n) == (119 - (n % 64)) % 64

Zeros(k) == [i \in 1..k |-> 0]

\* The bit count 8 * n as 8 bytes, least significant first (n < 2^21).
LengthBytes(n) ==
    <<(8 * n) % 256, ((8 * n) \div 256) % 256, ((8 * n) \div 65536) % 256,
      0, 0, 0, 0, 0>>

\* The stream with its padding and trailer.
Padded(s) == s \o <<128>> \o Zeros(ZeroPad(Len(s))) \o LengthBytes(Len(s))

\* The bytes of the word w, least significant first.
LEBytes(w) == <<w[1] % 256, w[1] \div 256, w[2] % 256, w[2] \div 256>>

\* The state words after the blocks k.. of blocks, from the state ws.
RECURSIVE FoldBlocks(_, _, _)
FoldBlocks(ws, blocks, k) ==
    IF k > Len(blocks) THEN ws
    ELSE FoldBlocks(TransformWords(ws, blocks[k]), blocks, k + 1)

\* The digest of the blocks: the state words in order, each least
\* significant byte first.
DigestOfBlocks(blocks) ==
    LET ws == FoldBlocks(InitWords, blocks, 1)
    IN  LEBytes(ws[1]) \o LEBytes(ws[2]) \o LEBytes(ws[3]) \o LEBytes(ws[4])

\* The byte counter that holds n (n < 2^31).
CountOf(n) ==
    [i \in 1..CounterLimbs |->
        IF i = 1 THEN n % 65536 ELSE IF i = 2 THEN n \div 65536 ELSE 0]

OtherHost(h) == IF h = "LE" THEN "BE" ELSE "LE"

\* d41d8cd98f00b204e9800998ecf8427e
EmptyDigest ==
    <<212, 29, 140, 217, 143, 0, 178, 4,
      233, 128, 9, 152, 236, 248, 66, 126>>

\* 900150983cd24fb0d6963f7d28e17f72
AbcDigest ==
    <<144, 1, 80, 152, 60, 210, 79, 176,
      214, 150, 63, 125, 40, 225, 127, 114>>

\* 9e107d9d372bb6826bd81d3542a419d6
FoxDigest ==
    <<158, 16, 125, 157, 55, 43, 182, 130,
      107, 216, 29, 53, 66, 164, 25, 214>>

-----------------------------------------------------------------------------
(* C1 *)

\* C1: chunk-invariance.  When md5Init, one md5Update per chunk and
\* md5Final have run, the digest is the one the one-shot md5 computes for
\* the whole stream with a single md5Update, whatever the chunks were.
C1_ChunkInvariance == phase = "consumed" => digest = md5(host, stream)

\* A stream longer than the longest chunk, hence absorbed in several calls.
C1_Witness ==
    /\ phase = "consumed"
    /\ Len(stream) > MaxChunk
    /\ digest = md5(host, stream)

-----------------------------------------------------------------------------
(* C5 *)

\* C5: known answers.  The digests of the empty input, of "abc" and of
\* "The quick brown fox jumps over the lazy dog" are the published ones,
\* the four state words in order, each least significant byte first.
C5_KnownAnswers ==
    phase = "consumed" =>
        /\ stream = <<>> => digest = EmptyDigest
        /\ stream = Abc => digest = AbcDigest
        /\ stream = Fox => digest = FoxDigest

C5_Witness == phase = "consumed" /\ stream = Fox /\ digest = FoxDigest

-----------------------------------------------------------------------------
(* C6 *)

\* C6: after md5Final returns, every field of the accumulator is zero: the
\* state words, the 64 buffer bytes and the byte counter.
C6_Wiped ==
    lastCall = "final" =>
        /\ \A j \in DOMAIN ctx.buf : ctx.buf[j] = 0
        /\ \A j \in DOMAIN ctx.in : ctx.in[j] = 0
        /\ \A i \in DOMAIN ctx.bytes : ctx.bytes[i] = 0

C6_Witness ==
    /\ lastCall = "final"
    /\ Len(stream) > 64
    /\ Len(digest) = 16
    /\ ctx = ZeroCtx

-----------------------------------------------------------------------------
(* C8 *)

\* C8: after md5Init and md5Update calls absorbing n bytes, the byte counter
\* is n, md5Transform has run floor(n / 64) times, on the successive 64-byte
\* blocks of the stream in order, and the first n mod 64 bytes of ctx->in are
\* the last n mod 64 bytes of the stream; a zero-length md5Update changes
\* nothing.
C8_Absorbed ==
    phase = "active" =>
        LET n == Len(stream)
        IN  /\ ctx.bytes = CountOf(n)
            /\ Len(fed) = n \div 64
            /\ fed = BlocksOf(stream, n \div 64)
            /\ \A j \in 0..((n % 64) - 1) :
                   ctx.in[j] = stream[n - (n % 64) + j + 1]
            /\ md5Update(host, Run, <<>>) = Run

\* Two blocks transformed and a remainder buffered.
C8_Witness ==
    /\ phase = "active"
    /\ lastCall = "update"
    /\ Len(stream) = MaxLen
    /\ Len(fed) = MaxLen \div 64
    /\ MaxLen % 64 > 0

-----------------------------------------------------------------------------
(* C3 *)

\* The first r bytes of ctx->in.
Buffered(in, r) == [j \in 1..r |-> in[j - 1]]

\* C3: for n absorbed bytes md5Final hands md5Transform the buffered
\* n mod 64 bytes, then 0x80, then the least number of zero bytes that
\* reaches 56 modulo 64, then the 8-byte trailer: one block when
\* n mod 64 <= 55 and two when n mod 64 >= 56, which makes
\* floor((n + 8) / 64) + 1 blocks since md5Init.
C3_FinalBlocks ==
    [][(phase = "active" /\ phase' = "consumed") =>
          LET n == Len(stream)
              r == n % 64
              k == IF r <= 55 THEN 1 ELSE 2
              tail == Buffered(ctx.in, r) \o <<128>> \o Zeros(ZeroPad(n))
                          \o LengthBytes(n)
          IN  /\ Len(tail) = 64 * k
              /\ Len(fed') = Len(fed) + k
              /\ \A i \in 1..Len(fed) : fed'[i] = fed[i]
              /\ \A i \in 1..k : fed'[Len(fed) + i] = BlockOf(tail, i)
              /\ Len(fed') = ((n + 8) \div 64) + 1]_vars

\* md5Final ran on 120 bytes: one block absorbed, two blocks of padding.
C3_Witness ==
    /\ phase = "consumed"
    /\ Len(stream) = 120
    /\ Len(fed) = 3

-----------------------------------------------------------------------------
(* C7 *)

\* C7: the digest does not depend on the byte order of the host.  On either
\* host every word md5Transform reads is the little-endian value of its 4
\* bytes of the padded stream (the trailer included), the digest is the
\* final state words laid out least significant byte first, and the other
\* host computes the same 16 bytes.
C7_HostIndependent ==
    /\ phase = "active" =>
           /\ 64 * Len(fed) <= Len(stream)
           /\ fed = BlocksOf(stream, Len(fed))
    /\ phase = "consumed" =>
           /\ 64 * Len(fed) <= Len(Padded(stream))
           /\ fed = BlocksOf(Padded(stream), Len(fed))
           /\ digest = DigestOfBlocks(fed)
           /\ digest = md5(OtherHost(host), stream)

C7_Witness ==
    /\ host = "BE"
    /\ phase = "consumed"
    /\ Len(stream) > 64
    /\ digest = md5("LE", stream)

-----------------------------------------------------------------------------
(* C9 *)

\* The buffer contents an accumulator may hold when md5Init is called.
StaleBuffers == {c.in : c \in Uninitialized}

\* md5Init, md5Update(data), md5Final on an accumulator whose buffer holds b.
FinalFrom(h, b, data) ==
    md5Final(h, md5Update(h, md5Init(h, NewRun([ZeroCtx EXCEPT !.in = b])),
                          data))

\* C9: stale buffer bytes are never consumed.  md5Init leaves ctx->in as it
\* was; no write of md5Update or md5Final leaves ctx->in, and what md5Final
\* produces (the blocks handed to md5Transform and the digest) is the same
\* whatever ctx->in held at md5Init.
C9_NoStaleBytes ==
    /\ ~oob
    /\ phase = "active" => ctx.in \in [0..63 -> 0..255]
    /\ phase = "consumed" =>
           \A b \in StaleBuffers :
               FinalFrom(host, b, stream) = [run |-> Run, digest |-> digest]

\* md5Final ran on an accumulator whose buffer held junk at md5Init.
C9_Witness ==
    /\ phase = "consumed"
    /\ \E j \in 0..63 : stale[j] # 0
    /\ Len(stream) % 64 >= 56
    /\ ~oob

-----------------------------------------------------------------------------
(* C10 *)

\* The input word indices the 16 lines of round group g (1..4) consume.
GroupOrder(g) == [i \in 1..16 |-> StepIndex(Steps[16 * (g - 1) + i])]

Sequential == [i \in 1..16 |-> i - 1]

IsPermutation(o) == {o[i] : i \in 1..16} = 0..15

NonMonotonic(o) == \E i \in 1..15 : o[i] > o[i + 1]

\* C10 as stated: in each of the four round groups the 16 rounds consume the
\* word indices in an order that is a permutation of 0..15 and that is
\* non-monotonic, not the sequential order 0, 1, .., 15.
C10_AllNonMonotonic ==
    Len(fed) > 0 =>
        \A g \in 1..4 :
            /\ IsPermutation(GroupOrder(g))
            /\ NonMonotonic(GroupOrder(g))
            /\ GroupOrder(g) # Sequential

\* C10 as amended: in each of the four round groups the order is a
\* permutation of 0..15; it is non-monotonic in groups 2, 3 and 4, and in
\* group 1 it is the sequential order 0, 1, .., 15.
C10_Permutations ==
    Len(fed) > 0 =>
        /\ \A g \in 1..4 : IsPermutation(GroupOrder(g))
        /\ \A g \in 2..4 : NonMonotonic(GroupOrder(g))
        /\ GroupOrder(1) = Sequential

\* md5Transform has run.
C10_Witness ==
    /\ Len(fed) > 0
    /\ GroupOrder(1) = Sequential
    /\ GroupOrder(2)[1] = 1

-----------------------------------------------------------------------------
(* C4 *)

\* Bit j of the byte counter b.
CounterBit(b, j) == (Limb(b, 1 + j \div 16) \div Pow2(j % 16)) % 2

\* Bit j of the bit count 8 * b.
BitCountBit(b, j) == IF j < 3 THEN 0 ELSE CounterBit(b, j - 3)

\* Bits lo .. lo + n - 1 of the bit count, as a number.
RECURSIVE BitCountBits(_, _, _)
BitCountBits(b, lo, n) ==
    IF n = 0 THEN 0
    ELSE BitCountBit(b, lo) + 2 * BitCountBits(b, lo + 1, n - 1)

\* Bits lo .. lo + 31 of the bit count, as a uint32_t.
BitCountWord(b, lo) == <<BitCountBits(b, lo, 16), BitCountBits(b, lo + 16, 16)>>

-----------------------------------------------------------------------------
(* C2 *)

\* C2: md5Update or md5Final on an accumulator that was never initialized,
\* or that md5Final has consumed, is signalled as an invalid-state error: the
\* call absorbs nothing and returns no digest.  (The functions return void
\* and have no failure path, so a signalled call is one that leaves the
\* accumulator and the digest as they were.)
C2_InvalidUseSignalled ==
    [][(phase # "active" /\ lastCall' \in {"update", "final"}) =>
          /\ ctx' = ctx
          /\ fed' = fed
          /\ digest' = digest]_vars
====
